---- MODULE Spec2Model ----
(***************************************************************************)
(* A model of NumPy_Revised: the Type Normalizer (condint.py), the         *)
(* Memoizing Stabilizer (stabilze.py), the numeric core                    *)
(* (maths_cleaned.py) and the array wrappers (arrays.py).                  *)
(*                                                                         *)
(* A Python number is a record [t, n, d]: its type t ("int", "float",      *)
(* "Decimal", "Fraction", "bool") and its value n/d in lowest terms.       *)
(* Decimal quotients are kept as exact rationals (the library rounds them  *)
(* at the context precision); sqrt, whose Newton iteration depends on the  *)
(* rounding, is computed in fixed point at SqrtScale.                      *)
(***************************************************************************)
EXTENDS Integers, Sequences, FiniteSets, TLC

VARIABLES
    cx,        \* condint: the call [x, to_type, cond] under test
    cres,      \* condint: its result, NoneVal before the call
    n0,        \* collatz_steps: the integer-coerced argument
    n,         \* collatz_steps: local n
    steps,     \* collatz_steps: local steps
    pc,        \* collatz_steps: position ("start", "loop", "done")
    ccache,    \* collatz_steps: the stabilize cache of the wrapped function
    fn,        \* numeric core: the wrapped function whose cache is followed
    mcache,    \* numeric core: each wrapped function's cache (key -> result)
    mret,      \* numeric core: the last call and what its caller observed
    first,     \* observer: the first result each cached key of fn returned
    ncalls,    \* observer: calls made so far
    data,      \* arrays: self.data of each array object
    opts,      \* arrays: self.to_type and self.cond of each array object
    built,     \* observer: the sequence each array was constructed from
    raw        \* observer: the value last assigned to each position

condVars == <<cx, cres>>
collVars == <<n0, n, steps, pc, ccache>>
mathVars == <<fn, mcache, mret, first, ncalls>>
arrVars == <<data, opts, built, raw>>
vars == <<cx, cres, n0, n, steps, pc, ccache, fn, mcache, mret, first, ncalls,
          data, opts, built, raw>>

(***************************************************************************)
(* Bounds                                                                  *)
(***************************************************************************)
MaxVal == 2          \* condint inputs have numerators in -MaxVal..MaxVal
MinN == 6            \* collatz_steps arguments range over -MinN..MaxN
MaxN == 12
MaxSteps == 40       \* cap on the steps counter of a running collatz loop

(***************************************************************************)
(* Python numbers                                                          *)
(***************************************************************************)
Abs(i) == IF i < 0 THEN -i ELSE i

RECURSIVE Gcd(_, _)
Gcd(a, b) == IF b = 0 THEN a ELSE Gcd(b, a % b)

\* the value n/d (d # 0) in lowest terms with a positive denominator
Norm(num, den) ==
    LET g == Gcd(Abs(num), Abs(den))
        s == IF den < 0 THEN -1 ELSE 1
    IN  [n |-> s * (num \div g), d |-> s * (den \div g)]

Num(t, num, den) == LET q == Norm(num, den) IN [t |-> t, n |-> q.n, d |-> q.d]

NoneVal == [t |-> "None", n |-> 0, d |-> 1]

\* int(x): truncation toward zero
PyInt(x) == IF x.n >= 0 THEN x.n \div x.d ELSE -((-x.n) \div x.d)

\* the variables of the parts a specification does not exercise
NoCall == [f |-> "none", args |-> <<>>, key |-> <<>>, kw |-> {}, hit |-> FALSE, ran |-> FALSE,
           res |-> [exc |-> "", msg |-> "", val |-> NoneVal]]

CondIdle ==
    /\ cx = [x |-> NoneVal, to_type |-> "None", cond |-> "None"]
    /\ cres = NoneVal

CollIdle == n0 = 0 /\ n = 0 /\ steps = 0 /\ pc = "idle" /\ ccache = {}

MathIdle ==
    /\ fn = "none" /\ mcache = <<>> /\ mret = NoCall /\ first = <<>> /\ ncalls = 0

ArrIdle == data = <<>> /\ opts = <<>> /\ built = <<>> /\ raw = <<>>

(***************************************************************************)
(* condint.py                                                              *)
(***************************************************************************)
\* the predicates a caller may pass as cond; "None" is replaced by the
\* default lambda v: True
CondHolds(cond, x) ==
    CASE cond = "None"     -> TRUE
      [] cond = "never"    -> FALSE
      [] cond = "positive" -> x.n > 0
      [] OTHER             -> TRUE

is_exact_int(x) ==
    \/ x.t = "int"
    \/ (x.t = "float" /\ x.d = 1)
    \/ (x.t = "Decimal" /\ x.d = 1)
    \/ (x.t = "Fraction" /\ x.d = 1)

\* a plausible slip: the auto conversion forgets isinstance(x, float)
condint_no_float_test(x, to_type, cond) ==
    IF to_type = "int" /\ CondHolds(cond, x) /\ is_exact_int(x)
    THEN Num("int", PyInt(x), 1)
    ELSE IF to_type = "float" /\ CondHolds(cond, x)
    THEN Num("float", x.n, x.d)
    ELSE IF to_type = "None" /\ CondHolds(cond, x) /\ is_exact_int(x)
    THEN Num("int", PyInt(x), 1)
    ELSE x

condint(x, to_type, cond) ==
    IF to_type = "int" /\ CondHolds(cond, x) /\ is_exact_int(x)
    THEN (IF x.t = "Fraction" THEN Num("int", x.n, 1) ELSE Num("int", PyInt(x), 1))
    ELSE IF to_type = "float" /\ CondHolds(cond, x)
    THEN Num("float", x.n, x.d)
    ELSE IF to_type = "None" /\ CondHolds(cond, x) /\ is_exact_int(x) /\ x.t = "float"
    THEN Num("int", PyInt(x), 1)
    ELSE x

condint_list(lst, to_type, cond) ==
    [i \in 1..Len(lst) |-> condint(lst[i], to_type, cond)]

\* the inputs condint is documented for: int, float, Decimal, Fraction
CondintInputs ==
    {Num("int", v, 1) : v \in -MaxVal..MaxVal}
    \cup {Num(t, v, d) : t \in {"float", "Decimal", "Fraction"},
                         v \in -MaxVal..MaxVal, d \in {1, 2}}

ToTypes == {"None", "int", "float"}
Conds == {"None", "never", "positive"}

CondintInit ==
    /\ cx \in [x : CondintInputs, to_type : ToTypes, cond : Conds]
    /\ cres = NoneVal
    /\ CollIdle /\ MathIdle /\ ArrIdle

CallCondint ==
    /\ cres = NoneVal
    /\ cres' = condint(cx.x, cx.to_type, cx.cond)
    /\ UNCHANGED <<cx, collVars, mathVars, arrVars>>

CondintNext == CallCondint

SpecCondint == CondintInit /\ [][CondintNext]_vars

\* C8: with no targetType, condint returns the integer form of x exactly
\* when x is a float with no fractional part and the predicate holds of x;
\* every other input with no targetType is returned unchanged, type included.
C8_CondintAuto ==
    (cres # NoneVal /\ cx.to_type = "None") =>
        IF cx.x.t = "float" /\ cx.x.d = 1 /\ CondHolds(cx.cond, cx.x)
        THEN cres = [t |-> "int", n |-> cx.x.n, d |-> 1]
        ELSE cres = cx.x

\* condint(Decimal("2.0")) was called with no targetType and gave the Decimal back
C8_Witness ==
    /\ cres # NoneVal
    /\ cx.to_type = "None"
    /\ cx.x = [t |-> "Decimal", n |-> 2, d |-> 1]
    /\ cres.t = "Decimal"

(***************************************************************************)
(* maths_cleaned.py: collatz_steps, one action per loop iteration          *)
(***************************************************************************)
\* n // 2 if n % 2 == 0 else 3 * n + 1 (Python floor division and modulo)
CollatzStep(m) == IF m % 2 = 0 THEN m \div 2 ELSE 3 * m + 1

\* a plausible slip: the loop guard written as n > 1
CollatzGuardGT(m) == m > 1

CollatzGuard(m) == m # 1

CollatzInit ==
    /\ n0 \in -MinN..MaxN
    /\ n = 0 /\ steps = 0 /\ pc = "start" /\ ccache = {}
    /\ CondIdle /\ MathIdle /\ ArrIdle

\* wrapper: key not in cache; func entered; n = int(n); steps = 0
CollatzEnter ==
    /\ pc = "start"
    /\ n' = n0 /\ steps' = 0 /\ pc' = "loop"
    /\ UNCHANGED <<n0, ccache, condVars, mathVars, arrVars>>

\* one iteration of while n != 1
CollatzIter ==
    /\ pc = "loop"
    /\ CollatzGuard(n)
    /\ steps < MaxSteps
    /\ n' = CollatzStep(n)
    /\ steps' = steps + 1
    /\ UNCHANGED <<n0, pc, ccache, condVars, mathVars, arrVars>>

\* loop exit; return steps; wrapper stores cache[key] = result
CollatzReturn ==
    /\ pc = "loop"
    /\ ~CollatzGuard(n)
    /\ pc' = "done"
    /\ ccache' = ccache \cup {<<n0, steps>>}
    /\ UNCHANGED <<n0, n, steps, condVars, mathVars, arrVars>>

CollatzNext == CollatzEnter \/ CollatzIter \/ CollatzReturn

SpecCollatz == CollatzInit /\ [][CollatzNext]_vars /\ WF_vars(CollatzNext)

\* the length of the halving / 3n+1 chain from m down to 1
RECURSIVE ChainLen(_, _)
ChainLen(m, fuel) ==
    IF m = 1 \/ fuel = 0 THEN 0
    ELSE 1 + ChainLen(IF m % 2 = 0 THEN m \div 2 ELSE 3 * m + 1, fuel - 1)

\* C10: collatz_steps(n) terminates, returning the number of steps to
\* reach 1, if and only if n >= 1; for n <= 0 the call never returns and
\* never records a cache entry.
C10_CollatzTermination ==
    /\ (n0 >= 1) ~> (pc = "done")
    /\ [](pc = "done" => (n0 >= 1 /\ steps = ChainLen(n0, MaxSteps)
                          /\ ccache = {<<n0, steps>>}))
    /\ [](n0 <= 0 => (pc # "done" /\ ccache = {} /\ (pc = "loop" => n <= 0)))

\* collatz_steps(7) has returned 16
C10_Witness == pc = "done" /\ n0 = 7 /\ steps = 16

(***************************************************************************)
(* maths_cleaned.py: Decimal helpers                                       *)
(***************************************************************************)
Ok(v) == [exc |-> "", msg |-> "", val |-> v]
Raise(e, m) == [exc |-> e, msg |-> m, val |-> NoneVal]

\* _to_decimal: Decimal as is, Fraction as Decimal(num) / Decimal(den),
\* int and float as Decimal(x)
to_decimal(x) == Num("Decimal", x.n, x.d)

DecAdd(a, b) == Num("Decimal", a.n * b.d + b.n * a.d, a.d * b.d)
DecSub(a, b) == Num("Decimal", a.n * b.d - b.n * a.d, a.d * b.d)
DecMul(a, b) == Num("Decimal", a.n * b.n, a.d * b.d)

DivZeroMsg == "Cannot divide by zero. Please change."

dec_div(a, b) ==
    IF to_decimal(b).n = 0
    THEN Raise("ValueError", DivZeroMsg)
    ELSE Ok(Num("Decimal", a.n * b.d, a.d * b.n))

(***************************************************************************)
(* maths_cleaned.py: the bodies of the wrapped functions. A body is run by *)
(* wrapper as func applied to args, so to_type and cond are their defaults (None).  *)
(***************************************************************************)
PyBool(b) == [t |-> "bool", n |-> IF b THEN 1 ELSE 0, d |-> 1]

RECURSIVE DigitSum(_)
DigitSum(m) == IF m < 10 THEN m ELSE (m % 10) + DigitSum(m \div 10)

\* n = int(n); n % sum(int(d) for d in str(n)) == 0
is_harshad(x) ==
    LET m == PyInt(x) IN
    IF m < 0 THEN Raise("ValueError", "invalid literal for int(): '-'")
    ELSE IF DigitSum(m) = 0 THEN Raise("ZeroDivisionError", "integer modulo by zero")
    ELSE Ok(PyBool(m % DigitSum(m) = 0))

percentage(part, total) ==
    LET q == dec_div(DecMul(to_decimal(part), Num("Decimal", 100, 1)), total) IN
    IF q.exc # "" THEN q ELSE Ok(condint(q.val, "None", "None"))

RECURSIVE RepeatMul(_, _, _)
RepeatMul(result, base, k) ==
    IF k = 0 THEN result ELSE RepeatMul(DecMul(result, base), base, k - 1)

power(base, exp) ==
    LET e == PyInt(exp)
        r == RepeatMul(Num("Decimal", 1, 1), to_decimal(base), Abs(e))
        q == IF e < 0 THEN dec_div(Num("Decimal", 1, 1), r) ELSE Ok(r)
    IN  IF q.exc # "" THEN q ELSE Ok(condint(q.val, "None", "None"))

\* Decimal arithmetic of sqrt in fixed point: the integer g stands for g/SqrtScale
SqrtScale == 10 * 10 * 10
NewtonIters == 30

Fix(x) == (x.n * SqrtScale) \div x.d

\* for _ in range(k): guess = (guess + dec_div(x, guess)) / 2
RECURSIVE Newton(_, _, _)
Newton(X, guess, k) ==
    IF k = 0 THEN Ok(Num("Decimal", guess, SqrtScale))
    ELSE IF guess = 0 THEN Raise("ValueError", DivZeroMsg)
    ELSE Newton(X, (guess + (X * SqrtScale) \div guess) \div 2, k - 1)

sqrt(x) ==
    LET xd == to_decimal(x) IN
    IF xd.n < 0 THEN Raise("ValueError", "Cannot take square root of negative")
    ELSE LET r == Newton(Fix(xd), Fix(xd) \div 2, NewtonIters) IN
         IF r.exc # "" THEN r ELSE Ok(condint(r.val, "None", "None"))

(***************************************************************************)
(* arrays.py. An array object is referred to by [t, n, d] with d = 0 and   *)
(* n its identity: the arrays define no __eq__ or __hash__, so as part of  *)
(* a cache key an array is its identity, whatever it holds.                *)
(***************************************************************************)
RefA == [t |-> "Array1", n |-> 1, d |-> 0]
RefB == [t |-> "Array1", n |-> 2, d |-> 0]
RefM == [t |-> "Array2", n |-> 3, d |-> 0]

\* isinstance(other, BaseArray)
IsArray(x) == x.d = 0

\* a Python index of a list of length len as a position 1..len
PyIndex(i, len) == IF i < 0 THEN len + i + 1 ELSE i + 1

ArrMethods == {"add", "sub", "mul", "div", "sum", "mean", "cumsum", "dot"}
Binary == {"add", "sub", "mul", "div", "dot"}

\* the op passed to _elementwise by add, sub, mul and div
ApplyOp(m, a, b) ==
    CASE m = "add" -> Ok(DecAdd(a, b))
      [] m = "sub" -> Ok(DecSub(a, b))
      [] m = "mul" -> Ok(DecMul(a, b))
      [] m = "div" -> dec_div(a, b)

\* a list comprehension over results: the first raise ends it
Collect(rs) ==
    IF \E i \in 1..Len(rs) : rs[i].exc # ""
    THEN rs[CHOOSE i \in 1..Len(rs) :
                /\ rs[i].exc # ""
                /\ \A j \in 1..(i - 1) : rs[j].exc = ""]
    ELSE Ok([i \in 1..Len(rs) |-> rs[i].val])

\* a plausible slip: zip alone, without the length check
elementwise_zip_only(self, other, m) ==
    IF IsArray(other)
    THEN LET k == IF Len(data[self.n]) < Len(data[other.n])
                  THEN Len(data[self.n]) ELSE Len(data[other.n])
         IN  Collect([i \in 1..k |-> ApplyOp(m, data[self.n][i], data[other.n][i])])
    ELSE Collect([i \in 1..Len(data[self.n]) |->
                     ApplyOp(m, data[self.n][i], to_decimal(other))])

elementwise(self, other, m) ==
    IF IsArray(other)
    THEN IF Len(data[self.n]) # Len(data[other.n])
         THEN Raise("ValueError", "Array lengths must match")
         ELSE Collect([i \in 1..Len(data[self.n]) |->
                          ApplyOp(m, data[self.n][i], data[other.n][i])])
    ELSE Collect([i \in 1..Len(data[self.n]) |->
                     ApplyOp(m, data[self.n][i], to_decimal(other))])

\* sum(xs) of Decimals: starts from the int 0
RECURSIVE PySum(_)
PySum(xs) ==
    IF Len(xs) = 0 THEN Num("int", 0, 1)
    ELSE LET rest == PySum(SubSeq(xs, 1, Len(xs) - 1)) IN
         Num("Decimal", rest.n * xs[Len(xs)].d + xs[Len(xs)].n * rest.d,
             rest.d * xs[Len(xs)].d)

Present(self, x) == condint(x, opts[self.n].to_type, opts[self.n].cond)

\* add, sub, mul, div
arith(self, other, m) ==
    LET e == elementwise(self, other, m) IN
    IF e.exc # "" THEN e
    ELSE Ok(condint_list(e.val, opts[self.n].to_type, opts[self.n].cond))

array_sum(self) == Ok(Present(self, PySum(data[self.n])))

array_mean(self) ==
    IF Len(data[self.n]) = 0
    THEN Raise("ValueError", "Cannot compute mean of empty array")
    ELSE LET q == dec_div(PySum(data[self.n]), Num("int", Len(data[self.n]), 1)) IN
         IF q.exc # "" THEN q ELSE Ok(Present(self, q.val))

array_cumsum(self) ==
    Ok([i \in 1..Len(data[self.n]) |->
           Present(self, DecAdd(Num("Decimal", 0, 1),
                                PySum(SubSeq(data[self.n], 1, i))))])

array_dot(self, other) ==
    IF ~IsArray(other) \/ Len(data[other.n]) # Len(data[self.n])
    THEN Raise("ValueError", "Dot product requires arrays of same length")
    ELSE Ok(Present(self, PySum([i \in 1..Len(data[self.n]) |->
                                    DecMul(data[self.n][i], data[other.n][i])])))

\* Array1.__getitem__, Array1.to_list
getitem1(self, idx) == Present(self, data[self.n][PyIndex(idx, Len(data[self.n]))])
to_list1(self) == [i \in 1..Len(data[self.n]) |-> Present(self, data[self.n][i])]

\* Array2.__getitem__, Array2.to_list
getitem2(self, idx) ==
    LET row == data[self.n][PyIndex(idx, Len(data[self.n]))] IN
    [j \in 1..Len(row) |-> Present(self, row[j])]
to_list2(self) ==
    [i \in 1..Len(data[self.n]) |->
        [j \in 1..Len(data[self.n][i]) |-> Present(self, data[self.n][i][j])]]

\* a plausible slip: the assigned value is stored as given
setitem1_unconverted(d, idx, value) == [d EXCEPT ![PyIndex(idx, Len(d))] = value]

\* Array1.__setitem__: self.data[idx] = _to_decimal(value)
setitem1(d, idx, value) == [d EXCEPT ![PyIndex(idx, Len(d))] = to_decimal(value)]

\* Array2.__setitem__: self.data[idx] = [_to_decimal(v) for v in value]
setitem2(d, idx, value) ==
    [d EXCEPT ![PyIndex(idx, Len(d))] = [j \in 1..Len(value) |-> to_decimal(value[j])]]

\* Array1.__init__, Array2.__init__
construct1(xs) == [i \in 1..Len(xs) |-> to_decimal(xs[i])]
construct2(xs) == [i \in 1..Len(xs) |-> [j \in 1..Len(xs[i]) |-> to_decimal(xs[i][j])]]

(***************************************************************************)
(* stabilze.py: stabilize                                                  *)
(***************************************************************************)
Fns == {"is_harshad", "percentage", "power", "sqrt", "pythagoras"}
Wrapped == Fns \cup ArrMethods

\* the wrapped functions declared with the named options to_type and cond
WithOptions == {"percentage", "power", "sqrt", "pythagoras"}

\* tuple(args) as a dict key: Python numbers hash and compare by value, so
\* 2, 2.0 and Decimal(2) are one key
Key(args) == [i \in 1..Len(args) |-> [n |-> args[i].n, d |-> args[i].d]]

\* a plausible slip: the cache is rebuilt around the new entry
PutOnly(c, k, v) == [x \in {k} |-> v]

Put(c, k, v) == [x \in (DOMAIN c) \cup {k} |-> IF x = k THEN v ELSE c[x]]

StabilizeMsg == "Cannot divide by zero. Please change the denominator."

\* the named options pythagoras passes on: to_type=to_type, cond=cond
PassedOn == {<<"to_type", "None">>, <<"cond", "None">>}

RECURSIVE wrapper(_, _, _, _)
RECURSIVE Body(_, _, _)

\* func applied to args for each wrapped function: [res, caches]
Body(f, args, caches) ==
    CASE f = "is_harshad" -> [res |-> is_harshad(args[1]), caches |-> caches]
      [] f = "percentage" -> [res |-> percentage(args[1], args[2]), caches |-> caches]
      [] f = "power"      -> [res |-> power(args[1], args[2]), caches |-> caches]
      [] f = "sqrt"       -> [res |-> sqrt(args[1]), caches |-> caches]
      [] f \in {"add", "sub", "mul", "div"} ->
            [res |-> arith(args[1], args[2], f), caches |-> caches]
      [] f = "sum"        -> [res |-> array_sum(args[1]), caches |-> caches]
      [] f = "mean"       -> [res |-> array_mean(args[1]), caches |-> caches]
      [] f = "cumsum"     -> [res |-> array_cumsum(args[1]), caches |-> caches]
      [] f = "dot"        -> [res |-> array_dot(args[1], args[2]), caches |-> caches]
      [] f = "pythagoras" ->
            LET a == to_decimal(args[1])
                b == to_decimal(args[2])
                inner == wrapper("sqrt", <<DecAdd(DecMul(a, a), DecMul(b, b))>>,
                                 PassedOn, caches)
            IN  [res |-> IF inner.res.exc # "" THEN inner.res
                         ELSE Ok(condint(inner.res.val, "None", "None")),
                 caches |-> inner.caches]

\* a plausible slip: the cache is not consulted
wrapper_no_lookup(f, args, kw, caches) ==
    IF kw # {} THEN [res |-> Raise("TypeError", "unexpected keyword argument"),
                     caches |-> caches, ran |-> FALSE]
    ELSE LET b == Body(f, args, caches) IN
         IF b.res.exc # "" THEN [res |-> b.res, caches |-> b.caches, ran |-> TRUE]
         ELSE [res |-> b.res, ran |-> TRUE,
               caches |-> [b.caches EXCEPT ![f] = Put(@, Key(args), b.res.val)]]

\* wrapper: [res, caches, ran], ran telling whether func was entered
wrapper(f, args, kw, caches) ==
    IF kw # {}
    THEN [res |-> Raise("TypeError", "unexpected keyword argument"),
          caches |-> caches, ran |-> FALSE]
    ELSE IF Key(args) \in DOMAIN caches[f]
    THEN [res |-> Ok(caches[f][Key(args)]), caches |-> caches, ran |-> FALSE]
    ELSE LET b == Body(f, args, caches) IN
         IF b.res.exc = "ZeroDivisionError"
         THEN [res |-> Raise("StabilizeError", StabilizeMsg),
               caches |-> b.caches, ran |-> TRUE]
         ELSE IF b.res.exc # ""
         THEN [res |-> b.res, caches |-> b.caches, ran |-> TRUE]
         ELSE [res |-> b.res, ran |-> TRUE,
               caches |-> [b.caches EXCEPT ![f] = Put(@, Key(args), b.res.val)]]

(***************************************************************************)
(* Calls to the wrapped functions of the numeric core                      *)
(***************************************************************************)
MaxArg == 2          \* arguments are drawn from -1..MaxArg
MaxCalls == 3        \* operations made in one run

MathNums ==
    {Num("int", v, 1) : v \in -1..MaxArg}
    \cup {Num("float", MaxArg, 1), Num("Decimal", 1, 2)}

FirstArgs == {Num("int", 0, 1), Num("int", MaxArg, 1), Num("float", MaxArg, 1)}
SecondArgs == {Num("int", -1, 1), Num("int", 0, 1), Num("int", MaxArg, 1)}

ArgsOf(f) ==
    IF f \in {"is_harshad", "sqrt"} THEN {<<x>> : x \in MathNums}
    ELSE {<<x, y>> : x \in FirstArgs, y \in SecondArgs}

\* the named options of a call: none, to_type alone, or both
KwSets == {{}, {<<"to_type", "int">>}, {<<"to_type", "float">>, <<"cond", "positive">>}}

MathInit ==
    /\ fn \in Fns \cup {"dec_div"}
    /\ mcache = [f \in Wrapped |-> <<>>]
    /\ mret = NoCall
    /\ first = <<>>
    /\ ncalls = 0
    /\ CondIdle /\ CollIdle /\ ArrIdle

\* fn called with args and named options kw through its stabilize wrapper
CallWrapped(args, kw) ==
    /\ fn \in Fns
    /\ ncalls < MaxCalls
    /\ LET w == wrapper(fn, args, kw, mcache) IN
       /\ mcache' = w.caches
       /\ mret' = [f |-> fn, args |-> args, key |-> Key(args), kw |-> kw,
                   hit |-> Key(args) \in DOMAIN mcache[fn], ran |-> w.ran,
                   res |-> w.res]
       /\ first' = IF w.res.exc = "" /\ Key(args) \notin DOMAIN first
                   THEN (Key(args) :> w.res.val) @@ first ELSE first
    /\ ncalls' = ncalls + 1
    /\ UNCHANGED <<fn, condVars, collVars, arrVars>>

\* dec_div(a, b) called directly, outside any wrapper
CallDecDiv(a, b) ==
    /\ fn = "dec_div"
    /\ ncalls < MaxCalls
    /\ mret' = [f |-> "dec_div", args |-> <<a, b>>, key |-> Key(<<a, b>>), kw |-> {},
                hit |-> FALSE, ran |-> TRUE, res |-> dec_div(a, b)]
    /\ ncalls' = ncalls + 1
    /\ UNCHANGED <<fn, mcache, first, condVars, collVars, arrVars>>

MathNext ==
    \/ \E args \in ArgsOf(fn), kw \in KwSets : CallWrapped(args, kw)
    \/ \E a \in MathNums, b \in MathNums : CallDecDiv(a, b)

SpecMath == MathInit /\ [][MathNext]_vars

\* C1: once a call with positional tuple k has returned v, every later call
\* with k returns v without running the wrapped body again; a call whose
\* tuple is not in the cache runs the body; a cache entry is never removed
\* or replaced.
C1_CacheStable ==
    /\ fn \in Fns => DOMAIN mcache[fn] = DOMAIN first
    /\ \A k \in DOMAIN first : mcache[fn][k] = first[k]
    /\ (mret.f \in Fns /\ mret.kw = {} /\ mret.hit) =>
            (~mret.ran /\ mret.res = Ok(first[mret.key]))
    /\ (mret.f \in Fns /\ mret.kw = {} /\ ~mret.hit) => mret.ran

\* power(2.0, 2) answered from the entry power(2, 2) left, after three calls
C1_Witness ==
    /\ mret.f = "power" /\ mret.kw = {} /\ mret.hit /\ ~mret.ran
    /\ mret.args[1].t = "float"
    /\ mret.res = Ok(Num("Decimal", 4, 1))
    /\ ncalls = MaxCalls

\* whether the call makes dec_div divide by zero
DivByZeroAsked(f, args) ==
    CASE f = "percentage" -> to_decimal(args[2]).n = 0
      [] f = "power"      -> PyInt(args[2]) < 0 /\ to_decimal(args[1]).n = 0
      [] f = "sqrt"       -> to_decimal(args[1]).n = 0
      [] OTHER            -> FALSE

\* C2: a division by zero reaching dec_div inside a wrapped call is observed
\* by the caller as StabilizeError with the fixed message; only a direct
\* call of dec_div surfaces the raw error.
C2_DivZeroTranslated ==
    /\ (mret.f \in Fns /\ mret.kw = {} /\ DivByZeroAsked(mret.f, mret.args)) =>
            mret.res = Raise("StabilizeError", StabilizeMsg)
    /\ (mret.f = "dec_div" /\ to_decimal(mret.args[2]).n = 0) =>
            mret.res = Raise("ValueError", DivZeroMsg)

\* C4: a wrapped function accepts the named options to_type and cond, which
\* take no part in the cache key: a call with named options whose positional
\* tuple is cached returns the cached result, and pythagoras, which calls
\* sqrt with named options, does not fail on that call.
C4_NamedOptionsShareKey ==
    /\ (mret.f \in WithOptions /\ mret.kw # {}) =>
            /\ mret.res.exc # "TypeError"
            /\ mret.hit => mret.res = Ok(first[mret.key])
    /\ (mret.f = "pythagoras" /\ mret.kw = {}) => mret.res.exc # "TypeError"

\* r * r is within 3 / SqrtScale of x
SqrtWithinTol(x, r) ==
    Abs(r.n * r.n * x.d - x.n * r.d * r.d) * SqrtScale <= 3 * r.d * r.d * x.d

\* C9: for every x >= 0, zero included, sqrt(x) returns r with r * r within
\* the tolerance of x; sqrt fails only on negative input.
C9_SqrtOfNonNegative ==
    (mret.f = "sqrt" /\ mret.kw = {}) =>
        IF mret.args[1].n >= 0
        THEN mret.res.exc = "" /\ SqrtWithinTol(mret.args[1], mret.res.val)
        ELSE mret.res.exc = "ValueError"

(***************************************************************************)
(* Arrays: construction, indexed assignment, reads and the wrapped methods *)
(***************************************************************************)
MaxLen == 2          \* arrays and rows hold at most MaxLen elements

Lists(S, lo, hi) == UNION {[1..k -> S] : k \in lo..hi}

BuildVals == {Num("int", 1, 1), Num("float", 2, 1)}
SetVals == {Num("int", 0, 1), Num("Fraction", 1, 2)}
Scalars == {Num("int", 0, 1)}
Rows == {<<>>, <<Num("int", 1, 1)>>, <<Num("float", 2, 1), Num("Fraction", 1, 2)>>}

Default == [to_type |-> "None", cond |-> "None"]

Constructed ==
    /\ data = <<construct1(built[1]), construct1(built[2]), construct2(built[3])>>
    /\ raw = built
    /\ mcache = [f \in Wrapped |-> <<>>]
    /\ mret = NoCall /\ first = <<>> /\ ncalls = 0
    /\ CondIdle /\ CollIdle

\* Array1 objects a and b = Array1([2]) under one wrapped method, beside an
\* empty Array2
ArrInitArith ==
    /\ fn \in ArrMethods
    /\ built \in {<<xs, <<Num("int", 2, 1)>>, <<>> >> : xs \in Lists(BuildVals, 0, MaxLen)}
    /\ opts = <<Default, Default, Default>>
    /\ Constructed

PresentOpts ==
    {[to_type |-> t, cond |-> "None"] : t \in ToTypes}
    \cup {[to_type |-> "None", cond |-> "positive"]}

\* a one-element Array1 a built with to_type and cond
ArrInitIndex1 ==
    /\ fn = "cumsum"
    /\ built \in {<< <<x>>, <<>>, <<>> >> : x \in BuildVals}
    /\ opts \in {<<o, Default, Default>> : o \in PresentOpts}
    /\ Constructed

\* an Array2 m built with to_type and cond, beside two empty Array1
ArrInitIndex2 ==
    /\ fn = "sum"
    /\ built \in {<< <<>>, <<>>, rows >> : rows \in Lists(Rows \ {<<>>}, 1, MaxLen)}
    /\ opts \in {<<Default, Default, o>> : o \in PresentOpts}
    /\ Constructed

ArrInit == ArrInitArith \/ ArrInitIndex1 \/ ArrInitIndex2

Indices(d) == (-Len(d))..(Len(d) - 1)

\* self.fn(other), or self.fn() for sum, mean and cumsum, through the wrapper
CallMethod(self, other) ==
    /\ fn \in ArrMethods
    /\ ncalls < MaxCalls
    /\ LET args == IF fn \in Binary THEN <<self, other>> ELSE <<self>>
           w == wrapper(fn, args, {}, mcache)
       IN  /\ mcache' = w.caches
           /\ mret' = [f |-> fn, args |-> args, key |-> Key(args), kw |-> {},
                       hit |-> Key(args) \in DOMAIN mcache[fn], ran |-> w.ran,
                       res |-> w.res]
           /\ first' = IF w.res.exc = "" /\ Key(args) \notin DOMAIN first
                       THEN (Key(args) :> w.res.val) @@ first ELSE first
    /\ ncalls' = ncalls + 1
    /\ UNCHANGED <<fn, condVars, collVars, arrVars>>

\* a[idx] = value on an Array1
SetItem1(self, idx, value) ==
    /\ ncalls < MaxCalls
    /\ idx \in Indices(data[self.n])
    /\ data' = [data EXCEPT ![self.n] = setitem1(@, idx, value)]
    /\ raw' = [raw EXCEPT ![self.n][IF idx >= 0 THEN idx + 1
                                    ELSE Len(raw[self.n]) + 1 + idx] = value]
    /\ mret' = [NoCall EXCEPT !.f = "setitem", !.args = <<self>>]
    /\ ncalls' = ncalls + 1
    /\ UNCHANGED <<fn, mcache, first, opts, built, condVars, collVars>>

\* m[idx] = row on an Array2
SetItem2(self, idx, row) ==
    /\ ncalls < MaxCalls
    /\ idx \in Indices(data[self.n])
    /\ data' = [data EXCEPT ![self.n] = setitem2(@, idx, row)]
    /\ raw' = [raw EXCEPT ![self.n][IF idx >= 0 THEN idx + 1
                                    ELSE Len(raw[self.n]) + 1 + idx] = row]
    /\ mret' = [NoCall EXCEPT !.f = "setitem", !.args = <<self>>]
    /\ ncalls' = ncalls + 1
    /\ UNCHANGED <<fn, mcache, first, opts, built, condVars, collVars>>

\* a.to_list()
ToList(self) ==
    /\ ncalls < MaxCalls
    /\ mret' = [NoCall EXCEPT !.f = "to_list", !.args = <<self>>,
                  !.res = Ok(IF self.t = "Array1" THEN to_list1(self) ELSE to_list2(self))]
    /\ ncalls' = ncalls + 1
    /\ UNCHANGED <<fn, mcache, first, arrVars, condVars, collVars>>

\* a[idx]
GetItem(self, idx) ==
    /\ ncalls < MaxCalls
    /\ idx \in Indices(data[self.n])
    /\ mret' = [NoCall EXCEPT !.f = "getitem", !.args = <<self, Num("int", idx, 1)>>,
                  !.res = Ok(IF self.t = "Array1" THEN getitem1(self, idx)
                             ELSE getitem2(self, idx))]
    /\ ncalls' = ncalls + 1
    /\ UNCHANGED <<fn, mcache, first, arrVars, condVars, collVars>>

ArrNext ==
    \/ \E self \in {RefA, RefB} : \E other \in ({RefA, RefB} \ {self}) \cup Scalars :
          CallMethod(self, other)
    \/ \E self \in {RefA, RefB}, idx \in -MaxLen..(MaxLen - 1), v \in SetVals :
          SetItem1(self, idx, v)
    \/ \E idx \in -MaxLen..(MaxLen - 1), row \in Rows : SetItem2(RefM, idx, row)
    \/ \E self \in {RefA, RefM} : ToList(self)
    \/ \E self \in {RefA, RefM}, idx \in -MaxLen..(MaxLen - 1) : GetItem(self, idx)

SpecArr == ArrInit /\ [][ArrNext]_vars

\* C3: once a.m(args) has returned v, every later a.m(args) with the same
\* receiver and positional arguments returns the cached v, whatever was
\* assigned to a or to an array operand in between.
C3_StaleCache ==
    /\ fn \in ArrMethods => DOMAIN mcache[fn] = DOMAIN first
    /\ (mret.f \in ArrMethods /\ mret.hit) =>
            (~mret.ran /\ mret.res = Ok(first[mret.key]))

\* a call answered from the cache although the method, run on the present
\* contents, gives another result
C3_Witness ==
    /\ mret.f \in ArrMethods /\ mret.hit
    /\ mret.res.exc = ""
    /\ Body(fn, mret.args, mcache).res # mret.res

\* whether a.div(other) pairs an element with a zero divisor
ZeroDivisor(self, other) ==
    IF IsArray(other)
    THEN /\ Len(data[self.n]) = Len(data[other.n])
         /\ \E i \in 1..Len(data[other.n]) : data[other.n][i].n = 0
    ELSE Len(data[self.n]) > 0 /\ other.n = 0

C5_State ==
    mret.f \in ArrMethods =>
        /\ (mret.f \in {"add", "sub", "mul", "div"} /\ IsArray(mret.args[2])
              /\ Len(data[mret.args[1].n]) # Len(data[mret.args[2].n])) =>
                 mret.res = Raise("ValueError", "Array lengths must match")
        /\ (mret.f = "dot" /\ (~IsArray(mret.args[2])
                               \/ Len(data[mret.args[1].n]) # Len(data[mret.args[2].n]))) =>
                 mret.res = Raise("ValueError", "Dot product requires arrays of same length")
        /\ (mret.f = "mean" /\ Len(data[mret.args[1].n]) = 0) =>
                 mret.res = Raise("ValueError", "Cannot compute mean of empty array")
        /\ (mret.f = "div" /\ ~mret.hit /\ ZeroDivisor(mret.args[1], mret.args[2])) =>
                 mret.res.exc # ""
        /\ mret.res.exc # "" =>
              /\ mret.ran
              /\ mret.res.val = NoneVal
              /\ mret.key \notin DOMAIN mcache[fn]
              /\ wrapper(fn, mret.args, {}, mcache)
                    = [res |-> mret.res, caches |-> mcache, ran |-> TRUE]

C5_Step ==
    (mret'.f \in ArrMethods /\ mret'.res.exc # "" /\ ncalls' # ncalls) =>
        (data' = data /\ mcache' = mcache /\ opts' = opts)

\* C5: an array operation that fails (length mismatch, dot with a non-array
\* or an operand of another length, mean of an empty array, a zero divisor)
\* raises to its caller with no partial result, leaves the receiver, the
\* operand and the cache as they were, and fails the same way when repeated.
C5_AllOrNothing == []C5_State /\ [][C5_Step]_vars

\* a.div(b) failed on the zero that was assigned to b, twice in a row
C5_Witness ==
    /\ mret.f = "div" /\ mret.args = <<RefA, RefB>>
    /\ mret.res = Raise("ValueError", DivZeroMsg)
    /\ data[1] # <<>> /\ data[2][1].n = 0
    /\ mcache["div"] = <<>>
    /\ ncalls = 3

\* C6: after any assignments and interleaved calls, position i of an array
\* holds the Decimal conversion of the value last assigned to i (of the
\* constructed value if none was), the other positions are unchanged, the
\* length is the constructed one, every leaf is a Decimal, and to_list()
\* and a[i] return the contents passed through condint.
C6_IndexedContents ==
    /\ \A id \in {1, 2} :
          /\ Len(data[id]) = Len(built[id])
          /\ \A i \in 1..Len(built[id]) :
                data[id][i] = [t |-> "Decimal", n |-> raw[id][i].n, d |-> raw[id][i].d]
    /\ Len(data[3]) = Len(built[3])
    /\ \A i \in 1..Len(built[3]) :
          /\ Len(data[3][i]) = Len(raw[3][i])
          /\ \A j \in 1..Len(raw[3][i]) :
                data[3][i][j] = [t |-> "Decimal", n |-> raw[3][i][j].n, d |-> raw[3][i][j].d]
    /\ (mret.f = "to_list" /\ mret.args[1].t = "Array1") =>
          mret.res.val = [i \in 1..Len(built[mret.args[1].n]) |->
                             condint(to_decimal(raw[mret.args[1].n][i]),
                                     opts[mret.args[1].n].to_type,
                                     opts[mret.args[1].n].cond)]
    /\ (mret.f = "getitem" /\ mret.args[1].t = "Array1") =>
          mret.res.val = condint(to_decimal(raw[mret.args[1].n][
                                     PyIndex(mret.args[2].n, Len(built[mret.args[1].n]))]),
                                 opts[mret.args[1].n].to_type, opts[mret.args[1].n].cond)
    /\ (mret.f = "to_list" /\ mret.args[1].t = "Array2") =>
          mret.res.val = [i \in 1..Len(built[3]) |-> [j \in 1..Len(raw[3][i]) |->
                             condint(to_decimal(raw[3][i][j]), opts[3].to_type, opts[3].cond)]]
    /\ (mret.f = "getitem" /\ mret.args[1].t = "Array2") =>
          LET row == raw[3][PyIndex(mret.args[2].n, Len(built[3]))] IN
          mret.res.val = [j \in 1..Len(row) |->
                             condint(to_decimal(row[j]), opts[3].to_type, opts[3].cond)]

\* a[0] read after a[0] was assigned Fraction(1, 2) and a method was called
C6_Witness ==
    /\ mret.f = "getitem" /\ mret.args = <<RefA, Num("int", 0, 1)>>
    /\ raw[1][1] = Num("Fraction", 1, 2)
    /\ built[1][1] # raw[1][1]
    /\ fn \in DOMAIN mcache /\ mcache[fn] # <<>>
    /\ mret.res.val = Num("Decimal", 1, 2)

\* C7: an Array1 built from exact-integer ints or floats with no targetType
\* returns from to_list() a list of the same length and order whose
\* elements are integers (type int, not Decimal).
C7_RoundTripIntegers ==
    (/\ mret.f = "to_list" /\ mret.args = <<RefA>>
     /\ opts[1] = Default
     /\ raw = built
     /\ \A i \in 1..Len(built[1]) : built[1][i].t \in {"int", "float"} /\ built[1][i].d = 1)
    => /\ Len(mret.res.val) = Len(built[1])
       /\ \A i \in 1..Len(built[1]) :
             mret.res.val[i] = [t |-> "int", n |-> built[1][i].n, d |-> 1]

====
